---- MODULE Spec2Model ----
(***************************************************************************)
(* Serial cabinet protocol engine: the CRC-8 checksum and frame builder of *)
(* utils/serialPort.js and the CabinetService of services/cabinetService.js*)
(* (connection lifecycle, open batches, status requests, the inbound frame *)
(* reassembler and the status decoder).                                    *)
(*                                                                         *)
(* Bytes are naturals in 0..255, buffers are sequences of bytes (index 1   *)
(* of a sequence is index 0 of the JavaScript Buffer).  Wall-clock         *)
(* timestamps are not modelled: lastStatusUpdate is the ordinal of the     *)
(* last merge (0 stands for null).                                         *)
(***************************************************************************)
EXTENDS Integers, Sequences, FiniteSets, TLC

VARIABLES
    isConnected,            \* this.isConnected
    port,                   \* this.port: "null", "opening", "open", "closed", "error"
    cabinetStatus,          \* this.cabinetStatus: id -> entry
    responseBuffer,         \* this.responseBuffer
    lastStatusUpdate,       \* this.lastStatusUpdate (0 = null, n = n-th merge)
    statusRequestTimeout,   \* this.statusRequestTimeout: NoTimer or the owner of the handle
    armed,                  \* status-request timers armed and not yet fired or cleared
    pc,                     \* per caller: position inside its pending operation
    call,                   \* per caller: locals of its pending operation
    writes,                 \* frames handed to port.write, in order, each with the value of opens then
    opCount,                \* operations started so far
    sent,                   \* items the device put on the line, in order
    delivered,              \* bytes of the line already handed to 'data' events
    bursts,                 \* noise bursts received as single 'data' events
    extracted,              \* frames extractFrame returned so far, in order
    lastEvent,              \* most recent 'data' event: frames it extracted, whether bytes were pending before it
    opens,                  \* ports opened so far where that is counted (2 stands for two or more)
    resolved,               \* where that is tracked: disconnect() has resolved and connect() was not called since
    probe                   \* the call of a pure function made directly: its arguments and its result

vars == <<isConnected, port, cabinetStatus, responseBuffer, lastStatusUpdate,
          statusRequestTimeout, armed, pc, call, writes, opCount,
          sent, delivered, bursts, extracted, lastEvent, opens, resolved, probe>>

rxVars  == <<sent, delivered, bursts, extracted, lastEvent, opens, resolved, probe>>

----------------------------------------------------------------------------
(* Bounds of the model *)

MaxItems == 2          \* items the device sends in the reassembler specification
MaxSvcItems == 1       \* frames the device sends in the whole-service specification
MaxNoiseItems == 1     \* frames the device sends in the noisy-line specification
MaxBursts == 2         \* noise bursts
MaxOps == 2            \* operations started by the callers in the command specification
MaxLiveOps == 1        \* operations started by the callers in the whole-service specification
MaxStatusOps == 2      \* operations started by the callers in the status-report specification
MaxStatusItems == 1    \* frames the device sends in the status-report specification
MaxRecoverOps == 1     \* operations started by the callers in the recovery specification
MaxRecoverItems == 1   \* items the device sends in the recovery specification
MaxLifecycleOps == 2   \* operations started by the callers in the lifecycle specification
MaxHttpOps == 2        \* requests posted by the clients in the HTTP specification
MaxShortItems == 2     \* items the device sends in the short-frame specification
MaxBatchOps == 2       \* batches started by the clients in the batch specification
MaxBatchItems == 1     \* frames the device sends in the batch specification
MaxMergeItems == 2     \* frames the device sends in the cabinet-map specification
MaxMergeOps == 1       \* operations started by the callers in the cabinet-map specification
MaxPayload == 3        \* length of the short payloads handed to buildSerialFrame
MaxCrcLen == 4         \* length of the byte sequences handed to calculateCRC8
MaxLongPayload == 254  \* length of the long payloads handed to buildSerialFrame

(* Program constants *)

HEADER1 == 170         \* 0xAA
HEADER2 == 85          \* 0x55
POLY == 140            \* 0x8C
INSTR_OPEN == 81       \* 0x51, default instruction of buildSerialFrame
INSTR_STATUS_REQ == 80 \* 0x50
INSTR_STATUS_RESP == 81 \* 0x51
MIN_FRAME == 6         \* extractFrame: buffer.length < 6
MIN_STATUS_FRAME == 12 \* parseStatusResponse: frame.length < 12
MIN_STATUS_LEN == 8    \* parseStatusResponse: dataLength < 8
STATUS_BYTES == 6      \* parseStatusResponse: 6 status bytes
MAX_ID == 255          \* openCabinets: id > 0xFF
MAX_BUFFER_SIZE == 10240 \* documented cap of the response buffer
NoiseLen == 8192       \* size of one noise burst (one serial read)

----------------------------------------------------------------------------
(* utils/serialPort.js *)

Byte == 0..255

RECURSIVE Xor(_, _)
Xor(a, b) ==
    IF a = 0 THEN b
    ELSE IF b = 0 THEN a
    ELSE (((a % 2) + (b % 2)) % 2) + 2 * Xor(a \div 2, b \div 2)

\* faulty variant: the mask is missing and the polynomial is applied to the unshifted register
CrcRoundUnshifted(crc) ==
    IF crc % 2 = 1 THEN Xor(crc, POLY) \div 2 ELSE crc \div 2

\* one round of the inner loop: if (crc & 1) crc = (crc >> 1) ^ 0x8C else crc >>= 1; crc &= 0xFF
CrcRound(crc) ==
    (IF crc % 2 = 1 THEN Xor(crc \div 2, POLY) ELSE crc \div 2) % 256

RECURSIVE CrcRounds(_, _)
CrcRounds(crc, n) == IF n = 0 THEN crc ELSE CrcRounds(CrcRound(crc), n - 1)

\* the inner for loop (8 rounds) applied to the accumulator after crc ^= byte; the
\* accumulator is a byte, the array element may be a length above 255 (9 bits)
CrcByte == [x \in 0..511 |-> CrcRounds(x, 8)]

\* the outer for loop over buffer[lo..hi] starting from accumulator crc: the bytes are
\* folded in order, first half then second half
RECURSIVE CrcFrom(_, _, _, _)
CrcFrom(crc, buffer, lo, hi) ==
    IF crc \notin Byte \/ lo > hi THEN crc      \* crc &= 0xFF keeps the accumulator a byte
    ELSE IF lo = hi THEN CrcByte[Xor(crc, buffer[lo])]
    ELSE \* the accumulator left by the first half is computed once and handed on
         CHOOSE out \in {CrcFrom(first, buffer, ((lo + hi) \div 2) + 1, hi) :
                            first \in {CrcFrom(crc, buffer, lo, (lo + hi) \div 2)}} : TRUE

calculateCRC8(buffer) == CrcFrom(0, buffer, 1, Len(buffer))

\* faulty variant: the length byte counts the payload only
buildSerialFramePayloadLength(dataBytes, boardAddress, instruction) ==
    LET dataLength == Len(dataBytes)
        frameWithoutCRC == <<HEADER1, HEADER2, dataLength, boardAddress, instruction>> \o dataBytes
        fullFrame == Append(frameWithoutCRC, calculateCRC8(frameWithoutCRC))
    IN  [i \in DOMAIN fullFrame |-> fullFrame[i] % 256]

buildSerialFrame(dataBytes, boardAddress, instruction) ==
    LET dataLength == 1 + 1 + Len(dataBytes)
        frameWithoutCRC == <<HEADER1, HEADER2, dataLength, boardAddress, instruction>> \o dataBytes
        fullFrame == Append(frameWithoutCRC, calculateCRC8(frameWithoutCRC))
    IN  \* Buffer.from(array) keeps the low 8 bits of each element
        [i \in DOMAIN fullFrame |-> fullFrame[i] % 256]

----------------------------------------------------------------------------
(* services/cabinetService.js: the inbound path *)

Drop(s, n) == SubSeq(s, n + 1, Len(s))
Take(s, n) == SubSeq(s, 1, n)

validateFrameCRC(frame) ==
    IF Len(frame) < 4 THEN FALSE
    ELSE calculateCRC8(Take(frame, Len(frame) - 1)) = frame[Len(frame)]

NoFrame == [found |-> FALSE]

\* faulty variant: a frame failing the checksum takes the rest of the buffer with it
extractFrameDropsRest(buffer) ==
    IF Len(buffer) < MIN_FRAME THEN NoFrame
    ELSE IF buffer[1] # HEADER1 \/ buffer[2] # HEADER2 THEN NoFrame
    ELSE LET dataLength == buffer[3]
             frameLength == 3 + dataLength + 1
             valid == validateFrameCRC(Take(buffer, frameLength))
         IN  IF Len(buffer) < frameLength THEN NoFrame
             ELSE [found |-> TRUE,
                   frame |-> Take(buffer, frameLength),
                   remaining |-> IF valid THEN Drop(buffer, frameLength) ELSE <<>>,
                   valid |-> valid]

extractFrame(buffer) ==
    IF Len(buffer) < MIN_FRAME THEN NoFrame
    ELSE IF buffer[1] # HEADER1 \/ buffer[2] # HEADER2 THEN NoFrame
    ELSE LET dataLength == buffer[3]
             frameLength == 3 + dataLength + 1
         IN  IF Len(buffer) < frameLength THEN NoFrame
             ELSE [found |-> TRUE,
                   frame |-> Take(buffer, frameLength),
                   remaining |-> Drop(buffer, frameLength),
                   valid |-> validateFrameCRC(Take(buffer, frameLength))]

\* faulty variant: the bits of a status byte are taken most significant first
BitMsbFirst(byte, bitIndex) == ((byte \div (2 ^ (7 - bitIndex))) % 2)

\* (byte >> bitIndex) & 0x01
Bit(byte, bitIndex) == ((byte \div (2 ^ bitIndex)) % 2)

\* faulty variant: the two length checks are missing, a short frame is decoded as far as it goes
parseStatusResponseUnchecked(frame) ==
    LET idx == {i \in 5..(5 + STATUS_BYTES - 1) : i < Len(frame) - 1}
        statusBytes == [k \in 1..Cardinality(idx) |-> frame[5 + k]]
        ids == 0..(Len(statusBytes) * 8 - 1)
    IN  [ok |-> TRUE,
         statusBytes |-> statusBytes,
         cabinets |-> [id \in ids |->
             [id |-> id,
              status |-> IF Bit(statusBytes[(id \div 8) + 1], id % 8) = 1 THEN "available" ELSE "unavailable",
              statusByte |-> id \div 8,
              statusBit |-> id % 8,
              rawBit |-> Bit(statusBytes[(id \div 8) + 1], id % 8)]],
         totalCabinets |-> Len(statusBytes) * 8]

NoStatus == [ok |-> FALSE]

parseStatusResponse(frame) ==
    IF Len(frame) < MIN_STATUS_FRAME THEN NoStatus
    ELSE IF frame[3] < MIN_STATUS_LEN THEN NoStatus
    ELSE LET \* for (i = 5; i < 5 + 6 && i < frame.length - 1; i++), 0-based
             idx == {i \in 5..(5 + STATUS_BYTES - 1) : i < Len(frame) - 1}
             statusBytes == [k \in 1..Cardinality(idx) |-> frame[5 + k]]
             ids == 0..(Len(statusBytes) * 8 - 1)
         IN  [ok |-> TRUE,
              statusBytes |-> statusBytes,
              cabinets |-> [id \in ids |->
                  LET byteIndex == id \div 8
                      bitIndex == id % 8
                      bitValue == Bit(statusBytes[byteIndex + 1], bitIndex)
                  IN  [id |-> id,
                       status |-> IF bitValue = 1 THEN "available" ELSE "unavailable",
                       statusByte |-> byteIndex,
                       statusBit |-> bitIndex,
                       rawBit |-> bitValue]],
              totalCabinets |-> Len(statusBytes) * 8]

\* faulty variant: the decoded map replaces the cabinet map instead of being merged into it
updateCabinetStatusReplaces(cs, parsedStatus) == parsedStatus.cabinets

\* faulty variant: an entry marked 'opened' is not overwritten by a decoded status
updateCabinetStatusKeepsOpened(cs, parsedStatus) ==
    [id \in (DOMAIN cs) \cup (DOMAIN parsedStatus.cabinets) |->
        IF id \in DOMAIN parsedStatus.cabinets /\ ~(id \in DOMAIN cs /\ cs[id].status = "opened")
        THEN parsedStatus.cabinets[id] ELSE cs[id]]

\* for (const [cabinetId, statusInfo] of Object.entries(parsed.cabinets)) this.cabinetStatus[cabinetId] = statusInfo
updateCabinetStatus(cs, parsedStatus) ==
    [id \in (DOMAIN cs) \cup (DOMAIN parsedStatus.cabinets) |->
        IF id \in DOMAIN parsedStatus.cabinets THEN parsedStatus.cabinets[id] ELSE cs[id]]

\* faulty variant: the valid flag of the extraction is not looked at
HandleFrameIgnoresValid(st, ex) ==
    LET merged == Len(ex.frame) >= 5 /\ ex.frame[5] = INSTR_STATUS_RESP
                  /\ parseStatusResponse(ex.frame).ok
    IN  [cs |-> IF merged THEN updateCabinetStatus(st.cs, parseStatusResponse(ex.frame)) ELSE st.cs,
         lsu |-> IF merged THEN st.lsu + 1 ELSE st.lsu,
         out |-> Append(st.out, [frame |-> ex.frame, valid |-> ex.valid]),
         nmerged |-> IF merged THEN st.nmerged + 1 ELSE st.nmerged]

\* faulty variant: a valid frame of any other instruction also stamps lastStatusUpdate
HandleFrameStampsAny(st, ex) ==
    LET merged == ex.valid /\ Len(ex.frame) >= 5 /\ ex.frame[5] = INSTR_STATUS_RESP
                  /\ parseStatusResponse(ex.frame).ok
        other == ex.valid /\ Len(ex.frame) >= 5 /\ ex.frame[5] # INSTR_STATUS_RESP
    IN  [cs |-> IF merged THEN updateCabinetStatus(st.cs, parseStatusResponse(ex.frame)) ELSE st.cs,
         lsu |-> IF merged \/ other THEN st.lsu + 1 ELSE st.lsu,
         out |-> Append(st.out, [frame |-> ex.frame, valid |-> ex.valid]),
         nmerged |-> IF merged THEN st.nmerged + 1 ELSE st.nmerged]

\* faulty variant: lastStatusUpdate is stamped for every 0x51 frame, decoded or refused
HandleFrameStampsRefused(st, ex) ==
    LET status == ex.valid /\ Len(ex.frame) >= 5 /\ ex.frame[5] = INSTR_STATUS_RESP
        merged == status /\ parseStatusResponse(ex.frame).ok
    IN  [cs |-> IF merged THEN updateCabinetStatus(st.cs, parseStatusResponse(ex.frame)) ELSE st.cs,
         lsu |-> IF status THEN st.lsu + 1 ELSE st.lsu,
         out |-> Append(st.out, [frame |-> ex.frame, valid |-> ex.valid]),
         nmerged |-> IF merged THEN st.nmerged + 1 ELSE st.nmerged]

\* the body of the while loop for one extracted frame: the state after it
HandleFrame(st, ex) ==
    LET merged == ex.valid /\ Len(ex.frame) >= 5 /\ ex.frame[5] = INSTR_STATUS_RESP
                  /\ parseStatusResponse(ex.frame).ok
    IN  [cs |-> IF merged THEN updateCabinetStatus(st.cs, parseStatusResponse(ex.frame)) ELSE st.cs,
         lsu |-> IF merged THEN st.lsu + 1 ELSE st.lsu,
         out |-> Append(st.out, [frame |-> ex.frame, valid |-> ex.valid]),
         nmerged |-> IF merged THEN st.nmerged + 1 ELSE st.nmerged]

\* faulty variant: one frame per pass, the rest of the buffer waits for the next 'data' event
ParseOnce(st, currentBuffer) ==
    IF Len(currentBuffer) = 0 THEN [st EXCEPT !.rb = currentBuffer]
    ELSE LET ex == extractFrame(currentBuffer)
         IN  IF ~ex.found THEN [st EXCEPT !.rb = currentBuffer]
             ELSE HandleFrame(st, ex) @@ [rb |-> ex.remaining]

\* parseResponse(buffer): st carries cabinetStatus, lastStatusUpdate and the frames extracted
RECURSIVE ParseLoop(_, _)
ParseLoop(st, currentBuffer) ==
    IF Len(currentBuffer) = 0 THEN [st EXCEPT !.rb = currentBuffer]
    ELSE LET ex == extractFrame(currentBuffer)
         IN  IF ~ex.found THEN [st EXCEPT !.rb = currentBuffer]
             ELSE ParseLoop(HandleFrame(st, ex) @@ [rb |-> st.rb], ex.remaining)

\* faulty variant: a pass that extracts no frame clears the buffer
parseResponseClearsPending(cs, lsu, buffer) ==
    LET r == ParseLoop([cs |-> cs, lsu |-> lsu, out |-> <<>>, nmerged |-> 0, rb |-> buffer], buffer)
    IN  IF r.out = <<>> THEN [r EXCEPT !.rb = <<>>] ELSE r

parseResponse(cs, lsu, buffer) ==
    ParseLoop([cs |-> cs, lsu |-> lsu, out |-> <<>>, nmerged |-> 0, rb |-> buffer], buffer)

----------------------------------------------------------------------------
(* The serial line: what the hardware (or noise) puts on it *)

StatusFrame(b) == buildSerialFrame(b, 0, INSTR_STATUS_RESP)

\* a frame with its trailing checksum byte altered
Tamper(frame) == [frame EXCEPT ![Len(frame)] = ((@ + 1) % 256)]

FrameSA == StatusFrame(<<1, 0, 0, 0, 0, 128>>)               \* cabinets 0 and 47 available
FrameSB == StatusFrame(<<255, 255, 255, 255, 255, 255>>)     \* all available
FrameSZ == StatusFrame(<<0, 0, 0, 0, 0, 0>>)                 \* all unavailable
FrameBad == Tamper(FrameSB)                                  \* a status frame failing the checksum
FrameEcho == buildSerialFrame(<<5>>, 0, INSTR_OPEN)          \* an open command seen on the line
FrameAck == buildSerialFrame(<<>>, 0, INSTR_STATUS_REQ)      \* a valid frame of another instruction
FrameReq6 == buildSerialFrame(<<255, 255, 255, 255, 255, 255>>, 0, INSTR_STATUS_REQ)  \* 12 bytes, another instruction
FrameShort == StatusFrame(<<255, 255, 255, 255, 255>>)       \* a status response one status byte short (11 bytes)
FrameTiny == Append(<<HEADER1, HEADER2, 0>>, calculateCRC8(<<HEADER1, HEADER2, 0>>))         \* declared length 0: 4 bytes
FrameSmall == Append(<<HEADER1, HEADER2, 1, 0>>, calculateCRC8(<<HEADER1, HEADER2, 1, 0>>))  \* declared length 1: 5 bytes
Stray == <<0>>                                               \* one stray byte
Junk == <<255, 255, 3, 0, 81, 165>>                          \* a run of bytes with no header

ItemBytes(item) ==
    CASE item = "sA"    -> FrameSA
      [] item = "sB"    -> FrameSB
      [] item = "sZ"    -> FrameSZ
      [] item = "bad"   -> FrameBad
      [] item = "echo"  -> FrameEcho
      [] item = "ack"   -> FrameAck
      [] item = "req6"  -> FrameReq6
      [] item = "short" -> FrameShort
      [] item = "tiny"  -> FrameTiny
      [] item = "small" -> FrameSmall
      [] item = "stray" -> Stray
      [] item = "junk"  -> Junk

RxItems == {"sA", "sB", "bad", "echo", "ack", "stray", "junk"}
SvcItems == {"sA"}
StatusItems == {"sA", "sB", "sZ"}
ShortItems == {"tiny", "small", "ack", "sA"}
MergeItems == {"sA", "sZ", "echo", "req6", "short"}

RECURSIVE Concat(_, _)
Concat(items, i) == IF i > Len(items) THEN <<>> ELSE ItemBytes(items[i]) \o Concat(items, i + 1)

LineAll == Concat(sent, 1)
line == Drop(LineAll, delivered)           \* bytes on the line not yet read
stream == Take(LineAll, delivered)         \* bytes already handed to 'data' events

NoiseChunk == [i \in 1..NoiseLen |-> 0]

----------------------------------------------------------------------------
(* Callers (concurrent HTTP requests) *)

Callers == {"c1", "c2"}
NoTimer == "none"

Num(n) == [isInt |-> TRUE, v |-> n]
NonInt == [isInt |-> FALSE, v |-> 1]        \* 1.5, 'two', null ...
Arr(elems) == [isArray |-> TRUE, elems |-> elems]
NotArray == [isArray |-> FALSE, elems |-> <<>>]

ValidInputs == {Arr(<<Num(5)>>), Arr(<<Num(5), Num(200)>>)}
InvalidInputs == {NotArray, Arr(<<>>), Arr(<<Num(-1)>>), Arr(<<Num(256)>>),
                  Arr(<<NonInt>>), Arr(<<Num(5), Num(256)>>), Arr(<<Num(5), NonInt>>)}
OpenInputs == ValidInputs \cup InvalidInputs

IdleCall == [op |-> "none"]

\* faulty variant: only the first element of the array is validated
RejectsInputFirstOnly(cabinetIds) ==
    \/ ~cabinetIds.isArray
    \/ Len(cabinetIds.elems) = 0
    \/ LET id == cabinetIds.elems[1]
       IN  ~id.isInt \/ id.v < 0 \/ id.v > MAX_ID

\* openCabinets lines 112-121: TRUE when the call throws before the try block
RejectsInput(cabinetIds) ==
    \/ ~cabinetIds.isArray
    \/ Len(cabinetIds.elems) = 0
    \/ \E i \in 1..Len(cabinetIds.elems) :
          LET id == cabinetIds.elems[i]
          IN  ~id.isInt \/ id.v < 0 \/ id.v > MAX_ID

\* faulty variant: only the port object is looked at, not the isConnected flag
NotConnectedPortOnly == port = "null"

\* sendFrame line 90
NotConnected == ~isConnected \/ port = "null"

\* faulty variant: the first failed send ends the batch
AttemptStopsAtFailure(c, cl, w, i, gap) ==
    IF i > Len(cl.ids) THEN [call |-> cl, writes |-> w, pc |-> "done"]
    ELSE IF NotConnected
    THEN [call |-> [cl EXCEPT !.failed = Append(@, [id |-> cl.ids[i], error |-> "Serial port not connected"])],
          writes |-> w, pc |-> "done"]
    ELSE [call |-> [cl EXCEPT !.idx = i],
          writes |-> Append(w, [op |-> cl.opId, by |-> c, gap |-> gap, at |-> opens,
                                frame |-> buildSerialFrame(<<cl.ids[i]>>, 0, INSTR_OPEN)]),
          pc |-> "writing"]

\* faulty variant: every frame of the batch carries the whole list of ids
RECURSIVE AttemptWholeBatch(_, _, _, _, _)
AttemptWholeBatch(c, cl, w, i, gap) ==
    IF i > Len(cl.ids) THEN [call |-> cl, writes |-> w, pc |-> "done"]
    ELSE IF NotConnected
    THEN AttemptWholeBatch(c, [cl EXCEPT !.failed = Append(@, [id |-> cl.ids[i], error |-> "Serial port not connected"])],
                           w, i + 1, gap)
    ELSE [call |-> [cl EXCEPT !.idx = i],
          writes |-> Append(w, [op |-> cl.opId, by |-> c, gap |-> gap, at |-> opens,
                                frame |-> buildSerialFrame(cl.ids, 0, INSTR_OPEN)]),
          pc |-> "writing"]

\* The for loop of openCabinets from input position i on, up to the next await that
\* yields to the event loop: a rejected sendFrame is caught and the loop goes on at once.
RECURSIVE Attempt(_, _, _, _, _)
Attempt(c, cl, w, i, gap) ==
    IF i > Len(cl.ids) THEN [call |-> cl, writes |-> w, pc |-> "done"]
    ELSE IF NotConnected
    THEN Attempt(c, [cl EXCEPT !.failed = Append(@, [id |-> cl.ids[i], error |-> "Serial port not connected"])],
                 w, i + 1, gap)
    ELSE [call |-> [cl EXCEPT !.idx = i],
          writes |-> Append(w, [op |-> cl.opId, by |-> c, gap |-> gap, at |-> opens,
                                frame |-> buildSerialFrame(<<cl.ids[i]>>, 0, INSTR_OPEN)]),
          pc |-> "writing"]

----------------------------------------------------------------------------
(* Initial state: the constructor *)

Init ==
    /\ isConnected = FALSE
    /\ port = "null"
    /\ cabinetStatus = <<>>
    /\ responseBuffer = <<>>
    /\ lastStatusUpdate = 0
    /\ statusRequestTimeout = NoTimer
    /\ armed = {}
    /\ pc = [c \in Callers |-> "idle"]
    /\ call = [c \in Callers |-> IdleCall]
    /\ writes = <<>>
    /\ opCount = 0
    /\ sent = <<>>
    /\ delivered = 0
    /\ bursts = 0
    /\ extracted = <<>>
    /\ lastEvent = [frames |-> 0, carried |-> FALSE]
    /\ opens = 0
    /\ resolved = FALSE
    /\ probe = [kind |-> "none"]

----------------------------------------------------------------------------
(* Connection lifecycle *)

\* connect(): new SerialPort(...) starts opening; the handlers are registered
Connect ==
    /\ port \in {"null", "closed", "error"}
    /\ port' = "opening"
    /\ UNCHANGED <<isConnected, cabinetStatus, responseBuffer, lastStatusUpdate,
                   statusRequestTimeout, armed, pc, call, writes, opCount>>
    /\ UNCHANGED rxVars

\* port.on('open')
PortOpen ==
    /\ port = "opening"
    /\ port' = "open"
    /\ isConnected' = TRUE
    /\ UNCHANGED <<cabinetStatus, responseBuffer, lastStatusUpdate,
                   statusRequestTimeout, armed, pc, call, writes, opCount>>
    /\ UNCHANGED rxVars

\* faulty variant: only the first port that opens sets the flag
PortOpenCountedOnce ==
    /\ port = "opening"
    /\ port' = "open"
    /\ isConnected' = (opens = 0)
    /\ opens' = IF opens < 2 THEN opens + 1 ELSE opens
    /\ UNCHANGED <<cabinetStatus, responseBuffer, lastStatusUpdate,
                   statusRequestTimeout, armed, pc, call, writes, opCount>>
    /\ UNCHANGED <<sent, delivered, bursts, extracted, lastEvent, resolved, probe>>

\* port.on('open'), with the opened ports counted
PortOpenCounted ==
    /\ port = "opening"
    /\ port' = "open"
    /\ isConnected' = TRUE
    /\ opens' = IF opens < 2 THEN opens + 1 ELSE opens
    /\ UNCHANGED <<cabinetStatus, responseBuffer, lastStatusUpdate,
                   statusRequestTimeout, armed, pc, call, writes, opCount>>
    /\ UNCHANGED <<sent, delivered, bursts, extracted, lastEvent, resolved, probe>>

\* port.on('error')
PortError ==
    /\ port \in {"opening", "open"}
    /\ port' = "error"
    /\ isConnected' = FALSE
    /\ UNCHANGED <<cabinetStatus, responseBuffer, lastStatusUpdate,
                   statusRequestTimeout, armed, pc, call, writes, opCount>>
    /\ UNCHANGED rxVars

\* disconnect(): clears the status timer, then closes the port when connected
Disconnect ==
    /\ armed' = IF statusRequestTimeout # NoTimer THEN armed \ {statusRequestTimeout} ELSE armed
    /\ statusRequestTimeout' = NoTimer
    /\ port' = IF port # "null" /\ isConnected THEN "closing" ELSE port
    /\ UNCHANGED <<isConnected, cabinetStatus, responseBuffer, lastStatusUpdate,
                   pc, call, writes, opCount>>
    /\ UNCHANGED rxVars

\* the callback of port.close
CloseCallback ==
    /\ port = "closing"
    /\ port' = "closed"
    /\ isConnected' = FALSE
    /\ UNCHANGED <<cabinetStatus, responseBuffer, lastStatusUpdate,
                   statusRequestTimeout, armed, pc, call, writes, opCount>>
    /\ UNCHANGED rxVars

\* connect(), with the calls tracked
ConnectTracked ==
    /\ port \in {"null", "closed", "error"}
    /\ port' = "opening"
    /\ resolved' = FALSE
    /\ UNCHANGED <<isConnected, cabinetStatus, responseBuffer, lastStatusUpdate,
                   statusRequestTimeout, armed, pc, call, writes, opCount>>
    /\ UNCHANGED <<sent, delivered, bursts, extracted, lastEvent, opens, probe>>

\* disconnect(), with its resolution tracked: it resolves at once when there is nothing to close
DisconnectTracked ==
    /\ armed' = IF statusRequestTimeout # NoTimer THEN armed \ {statusRequestTimeout} ELSE armed
    /\ statusRequestTimeout' = NoTimer
    /\ port' = IF port # "null" /\ isConnected THEN "closing" ELSE port
    /\ resolved' = IF port # "null" /\ isConnected THEN resolved ELSE TRUE
    /\ UNCHANGED <<isConnected, cabinetStatus, responseBuffer, lastStatusUpdate,
                   pc, call, writes, opCount>>
    /\ UNCHANGED <<sent, delivered, bursts, extracted, lastEvent, opens, probe>>

\* the callback of port.close, with the resolution of disconnect() tracked
CloseCallbackTracked ==
    /\ port = "closing"
    /\ port' = "closed"
    /\ isConnected' = FALSE
    /\ resolved' = TRUE
    /\ UNCHANGED <<cabinetStatus, responseBuffer, lastStatusUpdate,
                   statusRequestTimeout, armed, pc, call, writes, opCount>>
    /\ UNCHANGED <<sent, delivered, bursts, extracted, lastEvent, opens, probe>>

----------------------------------------------------------------------------
(* Inbound bytes *)

\* a cabinet map change made behind the back of the pending operations
Notice(cl, p, merges, reset) ==
    IF cl.op = "open" /\ (merges > 0 \/ reset) THEN [cl EXCEPT !.disturbed = TRUE]
    ELSE IF cl.op = "status" /\ p = "statusWait" /\ merges > 0 THEN [cl EXCEPT !.answered = TRUE]
    ELSE cl

\* faulty variant: the handler parses the chunk alone, forgetting the pending bytes
HandleDataNoConcat(chunk) ==
    \E r \in {parseResponse(cabinetStatus, lastStatusUpdate, chunk)} :
        /\ responseBuffer' = r.rb
        /\ cabinetStatus' = r.cs
        /\ lastStatusUpdate' = r.lsu
        /\ extracted' = extracted \o r.out
        /\ lastEvent' = [frames |-> Len(r.out), carried |-> responseBuffer # <<>>]
        /\ call' = [c \in Callers |-> Notice(call[c], pc[c], r.nmerged, FALSE)]
        /\ UNCHANGED <<isConnected, port, statusRequestTimeout, armed, pc, writes, opCount>>

\* port.on('data'): concat, then parseResponse
HandleData(chunk) ==
    \E r \in {parseResponse(cabinetStatus, lastStatusUpdate, responseBuffer \o chunk)} :
        /\ responseBuffer' = r.rb
        /\ cabinetStatus' = r.cs
        /\ lastStatusUpdate' = r.lsu
        /\ extracted' = extracted \o r.out
        /\ lastEvent' = [frames |-> Len(r.out), carried |-> responseBuffer # <<>>]
        /\ call' = [c \in Callers |-> Notice(call[c], pc[c], r.nmerged, FALSE)]
        /\ UNCHANGED <<isConnected, port, statusRequestTimeout, armed, pc, writes, opCount>>

\* the hardware (or the line) emits one more item
DeviceSend(items, max) ==
    /\ port = "open"
    /\ Len(sent) < max
    /\ \E it \in items : sent' = Append(sent, it)
    /\ UNCHANGED <<isConnected, port, cabinetStatus, responseBuffer, lastStatusUpdate,
                   statusRequestTimeout, armed, pc, call, writes, opCount>>
    /\ UNCHANGED <<delivered, bursts, extracted, lastEvent, opens, resolved, probe>>

\* one 'data' event carrying the next k bytes of the line
OnData(ln, k) ==
    /\ port = "open"
    /\ k \in 1..Len(ln)
    /\ HandleData(SubSeq(ln, 1, k))
    /\ delivered' = delivered + k
    /\ UNCHANGED <<sent, bursts, opens, resolved, probe>>

\* one 'data' event carrying a burst of line noise, before the device's first item
OnBurst ==
    /\ port = "open"
    /\ bursts < MaxBursts
    /\ sent = <<>>
    /\ HandleData(NoiseChunk)
    /\ bursts' = bursts + 1
    /\ UNCHANGED <<sent, delivered, opens, resolved, probe>>

----------------------------------------------------------------------------
(* Commands *)

\* openCabinets(cabinetIds) up to its first await
OpenCabinets(c, cabinetIds, maxOps) ==
    /\ pc[c] = "idle"
    /\ opCount < maxOps
    /\ opCount' = opCount + 1
    /\ IF RejectsInput(cabinetIds)
       THEN /\ pc' = [pc EXCEPT ![c] = "rejected"]
            /\ call' = [call EXCEPT ![c] = [op |-> "open", input |-> cabinetIds, error |-> "invalid input"]]
            /\ UNCHANGED writes
       ELSE /\ LET cl == [op |-> "open", opId |-> opCount + 1, input |-> cabinetIds,
                          ids |-> [i \in 1..Len(cabinetIds.elems) |-> cabinetIds.elems[i].v],
                          idx |-> 0, opened |-> <<>>, failed |-> <<>>, disturbed |-> FALSE]
                   r == Attempt(c, cl, writes, 1, "first")
               IN  /\ pc' = [pc EXCEPT ![c] = r.pc]
                   /\ call' = [call EXCEPT ![c] = r.call]
                   /\ writes' = r.writes
    /\ UNCHANGED <<isConnected, port, cabinetStatus, responseBuffer, lastStatusUpdate,
                   statusRequestTimeout, armed>>
    /\ UNCHANGED rxVars

\* faulty variant: the tracking entry of an opened cabinet is not written
MarkOpenedNowhere(cs, id) == cs

\* faulty variant: the entry is stored under the key that follows its id
MarkOpenedNextKey(cs, id) ==
    [k \in (DOMAIN cs) \cup {id + 1} |-> IF k = id + 1 THEN [id |-> id, status |-> "opened"] ELSE cs[k]]

\* this.cabinetStatus[cabinetId] = { id, status: 'opened', timestamp }
MarkOpened(cs, id) ==
    [k \in (DOMAIN cs) \cup {id} |-> IF k = id THEN [id |-> id, status |-> "opened"] ELSE cs[k]]

\* faulty variant: the tracking entry is written before the outcome of the write is known
WriteCallbackMarksFirst(c, ok) ==
    /\ pc[c] = "writing"
    /\ ok => port \in {"open", "closing"}
    /\ cabinetStatus' = MarkOpened(cabinetStatus, call[c].ids[call[c].idx])
    /\ LET cl == call[c]
           id == cl.ids[cl.idx]
       IN  IF ok
           THEN /\ call' = [call EXCEPT ![c].opened = Append(@, [id |-> id, status |-> "opened"])]
                /\ pc' = [pc EXCEPT ![c] = "delay"]
                /\ UNCHANGED writes
           ELSE LET r == Attempt(c, [cl EXCEPT !.failed = Append(@, [id |-> id, error |-> "write error"])],
                                 writes, cl.idx + 1, "none")
                IN  /\ pc' = [pc EXCEPT ![c] = r.pc]
                    /\ call' = [call EXCEPT ![c] = r.call]
                    /\ writes' = r.writes
    /\ UNCHANGED <<isConnected, port, responseBuffer, lastStatusUpdate,
                   statusRequestTimeout, armed, opCount>>
    /\ UNCHANGED rxVars

\* the callback of port.write for an open frame, and the loop up to the next await
WriteCallback(c, ok) ==
    /\ pc[c] = "writing"
    /\ ok => port \in {"open", "closing"}
    /\ LET cl == call[c]
           id == cl.ids[cl.idx]
       IN  IF ok
           THEN /\ cabinetStatus' = MarkOpened(cabinetStatus, id)
                /\ call' = [call EXCEPT ![c].opened = Append(@, [id |-> id, status |-> "opened"])]
                /\ pc' = [pc EXCEPT ![c] = "delay"]
                /\ UNCHANGED writes
           ELSE LET r == Attempt(c, [cl EXCEPT !.failed = Append(@, [id |-> id, error |-> "write error"])],
                                 writes, cl.idx + 1, "none")
                IN  /\ pc' = [pc EXCEPT ![c] = r.pc]
                    /\ call' = [call EXCEPT ![c] = r.call]
                    /\ writes' = r.writes
                    /\ UNCHANGED cabinetStatus
    /\ UNCHANGED <<isConnected, port, responseBuffer, lastStatusUpdate,
                   statusRequestTimeout, armed, opCount>>
    /\ UNCHANGED rxVars

\* faulty variant: the timer of delay(100) never resolves its promise, the loop stays suspended
DelayFiresLost(c) ==
    /\ pc[c] = "delay"
    /\ UNCHANGED vars

\* the timer of delay(100) fires: next iteration of the loop
DelayFires(c) ==
    /\ pc[c] = "delay"
    /\ LET r == Attempt(c, call[c], writes, call[c].idx + 1, "delay")
       IN  /\ pc' = [pc EXCEPT ![c] = r.pc]
           /\ call' = [call EXCEPT ![c] = r.call]
           /\ writes' = r.writes
    /\ UNCHANGED <<isConnected, port, cabinetStatus, responseBuffer, lastStatusUpdate,
                   statusRequestTimeout, armed, opCount>>
    /\ UNCHANGED rxVars

\* Object.values(this.cabinetStatus): integer keys in ascending order
RECURSIVE ValuesFrom(_, _)
ValuesFrom(cs, keys) ==
    IF keys = {} THEN <<>>
    ELSE LET k == CHOOSE x \in keys : \A y \in keys : x <= y
         IN  <<cs[k]>> \o ValuesFrom(cs, keys \ {k})

\* the object returned by getCabinetStatus (lines 208-214)
getCabinetStatus ==
    [connected |-> isConnected,
     lastUpdate |-> lastStatusUpdate,
     cabinets |-> ValuesFrom(cabinetStatus, DOMAIN cabinetStatus)]

\* getCabinetStatus(true) once the awaited requestStatus has settled (resolved, or thrown and caught)
FreshResult == [op |-> "getStatus", requestFresh |-> TRUE, result |-> getCabinetStatus]

\* requestStatus() up to its first await
RequestStatus(c, maxOps) ==
    /\ pc[c] = "idle"
    /\ opCount < maxOps
    /\ opCount' = opCount + 1
    /\ IF NotConnected
       THEN /\ pc' = [pc EXCEPT ![c] = "rejected"]
            /\ call' = [call EXCEPT ![c] = [op |-> "status", error |-> "Serial port not connected"]]
            /\ UNCHANGED writes
       ELSE /\ pc' = [pc EXCEPT ![c] = "statusWriting"]
            /\ call' = [call EXCEPT ![c] = [op |-> "status", opId |-> opCount + 1, answered |-> FALSE, fresh |-> FALSE]]
            /\ writes' = Append(writes, [op |-> opCount + 1, by |-> c, gap |-> "first", at |-> opens,
                                         frame |-> buildSerialFrame(<<>>, 0, INSTR_STATUS_REQ)])
    /\ UNCHANGED <<isConnected, port, cabinetStatus, responseBuffer, lastStatusUpdate,
                   statusRequestTimeout, armed>>
    /\ UNCHANGED rxVars

\* getCabinetStatus(requestFresh) up to its first await, or to its return when it awaits nothing
GetCabinetStatus(c, requestFresh, maxOps) ==
    /\ pc[c] = "idle"
    /\ opCount < maxOps
    /\ opCount' = opCount + 1
    /\ IF requestFresh /\ isConnected /\ ~NotConnected
       THEN /\ pc' = [pc EXCEPT ![c] = "statusWriting"]
            /\ call' = [call EXCEPT ![c] = [op |-> "status", opId |-> opCount + 1, answered |-> FALSE, fresh |-> TRUE]]
            /\ writes' = Append(writes, [op |-> opCount + 1, by |-> c, gap |-> "first", at |-> opens,
                                         frame |-> buildSerialFrame(<<>>, 0, INSTR_STATUS_REQ)])
       ELSE /\ pc' = [pc EXCEPT ![c] = "done"]
            /\ call' = [call EXCEPT ![c] = [op |-> "getStatus", requestFresh |-> requestFresh,
                                            result |-> getCabinetStatus]]
            /\ UNCHANGED writes
    /\ UNCHANGED <<isConnected, port, cabinetStatus, responseBuffer, lastStatusUpdate,
                   statusRequestTimeout, armed>>
    /\ UNCHANGED rxVars

\* faulty variant: the error of a failed status-request send escapes getCabinetStatus
StatusWriteCallbackUncaught(c, ok) ==
    /\ pc[c] = "statusWriting"
    /\ ok => port \in {"open", "closing"}
    /\ IF ok
       THEN /\ statusRequestTimeout' = c
            /\ armed' = armed \cup {c}
            /\ pc' = [pc EXCEPT ![c] = "statusWait"]
       ELSE /\ pc' = [pc EXCEPT ![c] = "rejected"]
            /\ UNCHANGED <<statusRequestTimeout, armed>>
    /\ UNCHANGED <<isConnected, port, cabinetStatus, responseBuffer, lastStatusUpdate,
                   call, writes, opCount>>
    /\ UNCHANGED rxVars

\* the callback of port.write for the status request: arm the timer, or throw; the throw
\* is caught when the request was made by getCabinetStatus(true)
StatusWriteCallback(c, ok) ==
    /\ pc[c] = "statusWriting"
    /\ ok => port \in {"open", "closing"}
    /\ IF ok
       THEN /\ statusRequestTimeout' = c
            /\ armed' = armed \cup {c}
            /\ pc' = [pc EXCEPT ![c] = "statusWait"]
            /\ UNCHANGED call
       ELSE /\ pc' = [pc EXCEPT ![c] = IF call[c].fresh THEN "done" ELSE "rejected"]
            /\ call' = IF call[c].fresh THEN [call EXCEPT ![c] = FreshResult] ELSE call
            /\ UNCHANGED <<statusRequestTimeout, armed>>
    /\ UNCHANGED <<isConnected, port, cabinetStatus, responseBuffer, lastStatusUpdate,
                   writes, opCount>>
    /\ UNCHANGED rxVars

\* the 2000 ms timer fires: resolve()
StatusTimeout(c) ==
    /\ c \in armed
    /\ armed' = armed \ {c}
    /\ pc' = [pc EXCEPT ![c] = "done"]
    /\ call' = IF call[c].fresh THEN [call EXCEPT ![c] = FreshResult] ELSE call
    /\ UNCHANGED <<isConnected, port, cabinetStatus, responseBuffer, lastStatusUpdate,
                   statusRequestTimeout, writes, opCount>>
    /\ UNCHANGED rxVars

\* the caller takes the result of a settled operation
Return(c) ==
    /\ pc[c] \in {"done", "rejected"}
    /\ pc' = [pc EXCEPT ![c] = "idle"]
    /\ call' = [call EXCEPT ![c] = IdleCall]
    /\ UNCHANGED <<isConnected, port, cabinetStatus, responseBuffer, lastStatusUpdate,
                   statusRequestTimeout, armed, writes, opCount>>
    /\ UNCHANGED rxVars

\* faulty variant: the reset also forgets the time of the last status update and the pending bytes
ResetStatusEverything ==
    /\ cabinetStatus' = <<>>
    /\ lastStatusUpdate' = 0
    /\ responseBuffer' = <<>>
    /\ call' = [c \in Callers |-> Notice(call[c], pc[c], 0, TRUE)]
    /\ UNCHANGED <<isConnected, port, statusRequestTimeout, armed, pc, writes, opCount>>
    /\ UNCHANGED rxVars

\* resetStatus()
ResetStatus ==
    /\ cabinetStatus' = <<>>
    /\ call' = [c \in Callers |-> Notice(call[c], pc[c], 0, TRUE)]
    /\ UNCHANGED <<isConnected, port, responseBuffer, lastStatusUpdate,
                   statusRequestTimeout, armed, pc, writes, opCount>>
    /\ UNCHANGED rxVars

----------------------------------------------------------------------------
(* Specifications *)

\* the command side: concurrent callers and the connection lifecycle
Next ==
    \/ Connect
    \/ PortOpen
    \/ PortError
    \/ Disconnect
    \/ CloseCallback
    \/ \E c \in Callers, input \in OpenInputs : OpenCabinets(c, input, MaxOps)
    \/ \E c \in Callers, ok \in BOOLEAN : WriteCallback(c, ok)
    \/ \E c \in Callers : DelayFires(c)
    \/ \E c \in Callers : RequestStatus(c, MaxOps)
    \/ \E c \in Callers, ok \in BOOLEAN : StatusWriteCallback(c, ok)
    \/ \E c \in Callers : StatusTimeout(c)
    \/ \E c \in Callers : Return(c)

Spec == Init /\ [][Next]_vars

\* the whole service: commands while the hardware sends whole status frames
NextLive ==
    \/ Connect
    \/ PortOpen
    \/ PortError
    \/ Disconnect
    \/ CloseCallback
    \/ DeviceSend(SvcItems, MaxSvcItems)
    \/ \E ln \in {line} : OnData(ln, Len(ln))
    \/ \E c \in Callers, input \in ValidInputs : OpenCabinets(c, input, MaxLiveOps)
    \/ \E c \in Callers, ok \in BOOLEAN : WriteCallback(c, ok)
    \/ \E c \in Callers : DelayFires(c)
    \/ \E c \in Callers : RequestStatus(c, MaxLiveOps)
    \/ \E c \in Callers, ok \in BOOLEAN : StatusWriteCallback(c, ok)
    \/ \E c \in Callers : StatusTimeout(c)
    \/ \E c \in Callers : Return(c)
    \/ ResetStatus

SpecLive == Init /\ [][NextLive]_vars

\* the reassembler: every item, every split of the line into 'data' events
NextRx ==
    \/ Connect
    \/ PortOpen
    \/ DeviceSend(RxItems, MaxItems)
    \/ \E ln \in {line} : \E k \in 1..Len(ln) : OnData(ln, k)

SpecRx == Init /\ [][NextRx]_vars

\* the reassembler fed with the shortest frames the header and length byte allow
NextShort ==
    \/ Connect
    \/ PortOpen
    \/ DeviceSend(ShortItems, MaxShortItems)
    \/ \E ln \in {line} : \E k \in 1..Len(ln) : OnData(ln, k)

SpecShort == Init /\ [][NextShort]_vars

\* a noisy line: bursts of noise, then status frames in every split
NextNoise ==
    \/ Connect
    \/ PortOpen
    \/ OnBurst
    \/ DeviceSend(StatusItems, MaxNoiseItems)
    \/ \E ln \in {line} : \E k \in 1..Len(ln) : OnData(ln, k)

SpecNoise == Init /\ [][NextNoise]_vars

\* status reports: getCabinetStatus by one caller while the map changes under it
NextStatus ==
    \/ Connect
    \/ PortOpen
    \/ DeviceSend(SvcItems, MaxStatusItems)
    \/ \E ln \in {line} : OnData(ln, Len(ln))
    \/ \E c \in Callers : OpenCabinets(c, Arr(<<Num(5)>>), MaxStatusOps)
    \/ \E c \in Callers, ok \in BOOLEAN : WriteCallback(c, ok)
    \/ \E c \in Callers : DelayFires(c)
    \/ \E c \in Callers, requestFresh \in BOOLEAN : GetCabinetStatus(c, requestFresh, MaxStatusOps)
    \/ \E c \in Callers, ok \in BOOLEAN : StatusWriteCallback(c, ok)
    \/ \E c \in Callers : StatusTimeout(c)
    \/ \E c \in Callers : Return(c)
    \/ ResetStatus

SpecStatus == Init /\ [][NextStatus]_vars

\* the cabinet map: one client opening [5, 200] while frames of every kind arrive, each in one 'data' event
NextMerge ==
    \/ Connect
    \/ PortOpen
    \/ DeviceSend(MergeItems, MaxMergeItems)
    \/ \E ln \in {line} : OnData(ln, Len(ln))
    \/ OpenCabinets("c1", Arr(<<Num(5), Num(200)>>), MaxMergeOps)
    \/ \E c \in Callers, ok \in BOOLEAN : WriteCallback(c, ok)
    \/ \E c \in Callers : DelayFires(c)
    \/ \E c \in Callers : Return(c)
    \/ ResetStatus

SpecMerge == Init /\ [][NextMerge]_vars

\* open batches of two clients among data events, resets and disconnects
NextBatch ==
    \/ Connect
    \/ PortOpen
    \/ Disconnect
    \/ CloseCallback
    \/ DeviceSend(SvcItems, MaxBatchItems)
    \/ \E ln \in {line} : OnData(ln, Len(ln))
    \/ OpenCabinets("c1", Arr(<<Num(5), Num(200)>>), MaxBatchOps)
    \/ OpenCabinets("c2", Arr(<<Num(7)>>), MaxBatchOps)
    \/ \E c \in Callers, ok \in BOOLEAN : WriteCallback(c, ok)
    \/ \E c \in Callers : DelayFires(c)
    \/ ResetStatus

SpecBatch == Init /\ [][NextBatch]_vars

\* the same, where every write gets its callback and every delay timer fires
SpecBatchFair ==
    /\ SpecBatch
    /\ \A c \in Callers : WF_vars(\E ok \in BOOLEAN : WriteCallback(c, ok))
    /\ \A c \in Callers : WF_vars(DelayFires(c))

\* recovery: failures of every kind, disconnects, and connecting again
RecoverItems == {"bad", "stray"}

NextRecover ==
    \/ Connect
    \/ PortOpenCounted
    \/ PortError
    \/ Disconnect
    \/ CloseCallback
    \/ DeviceSend(RecoverItems, MaxRecoverItems)
    \/ \E ln \in {line} : OnData(ln, Len(ln))
    \/ \E c \in Callers : OpenCabinets(c, Arr(<<Num(5), Num(200)>>), MaxRecoverOps)
    \/ \E c \in Callers, ok \in BOOLEAN : WriteCallback(c, ok)
    \/ \E c \in Callers : DelayFires(c)
    \/ \E c \in Callers : RequestStatus(c, MaxRecoverOps)
    \/ \E c \in Callers, ok \in BOOLEAN : StatusWriteCallback(c, ok)
    \/ \E c \in Callers : StatusTimeout(c)
    \/ \E c \in Callers : Return(c)

SpecRecover == Init /\ [][NextRecover]_vars

----------------------------------------------------------------------------
(* controllers/cabinetController.js: POST /api/v1/cabinet/open *)

\* req.body: cabinetIds absent, or present with some value
NoCabinetIds == [present |-> FALSE]
Body(cabinetIds) == [present |-> TRUE, cabinetIds |-> cabinetIds]
HttpBodies == {NoCabinetIds} \cup {Body(x) : x \in OpenInputs}

\* the four validation blocks of the handler (lines 68-102): TRUE when it answers 400
ControllerRejects(body) ==
    IF ~body.present THEN TRUE
    ELSE \/ ~body.cabinetIds.isArray
         \/ Len(body.cabinetIds.elems) = 0
         \/ \E i \in 1..Len(body.cabinetIds.elems) :
               LET id == body.cabinetIds.elems[i]
               IN  ~id.isInt \/ id.v < 0 \/ id.v > 255

\* faulty variant: any failed id makes the answer a 500
responseStatusAnyFailure(opened, failed) ==
    IF Len(failed) > 0 THEN 500 ELSE 200

\* hasFailures && result.opened.length === 0 ? 500 : 200
responseStatus(opened, failed) ==
    IF Len(failed) > 0 /\ Len(opened) = 0 THEN 500 ELSE 200

\* the handler up to its first await: a 400 answer, or the call of cabinetService.openCabinets
HttpOpenCabinets(c, body, maxOps) ==
    IF ControllerRejects(body)
    THEN /\ pc[c] = "idle"
         /\ opCount < maxOps
         /\ opCount' = opCount + 1
         /\ pc' = [pc EXCEPT ![c] = "done"]
         /\ call' = [call EXCEPT ![c] = [op |-> "httpOpen", body |-> body, status |-> 400]]
         /\ UNCHANGED <<isConnected, port, cabinetStatus, responseBuffer, lastStatusUpdate,
                        statusRequestTimeout, armed, writes>>
         /\ UNCHANGED rxVars
    ELSE OpenCabinets(c, body.cabinetIds, maxOps)

\* the handler after the await: the answer built from the result, or the 500 of the catch block
HttpRespond(c) ==
    /\ pc[c] \in {"done", "rejected"}
    /\ call[c].op = "open"
    /\ pc' = [pc EXCEPT ![c] = "done"]
    /\ call' = [call EXCEPT ![c] =
                  IF pc[c] = "rejected"
                  THEN [op |-> "httpOpen", body |-> Body(call[c].input), status |-> 500]
                  ELSE [op |-> "httpOpen", body |-> Body(call[c].input),
                        status |-> responseStatus(call[c].opened, call[c].failed),
                        opened |-> call[c].opened, failed |-> call[c].failed,
                        total |-> Len(call[c].input.elems)]]
    /\ UNCHANGED <<isConnected, port, cabinetStatus, responseBuffer, lastStatusUpdate,
                   statusRequestTimeout, armed, writes, opCount>>
    /\ UNCHANGED rxVars

\* HTTP clients posting open requests while the connection comes and goes
NextHttp ==
    \/ Connect
    \/ PortOpen
    \/ PortError
    \/ \E c \in Callers, body \in HttpBodies : HttpOpenCabinets(c, body, MaxHttpOps)
    \/ \E c \in Callers, ok \in BOOLEAN : WriteCallback(c, ok)
    \/ \E c \in Callers : DelayFires(c)
    \/ \E c \in Callers : HttpRespond(c)
    \/ \E c \in Callers : call[c].op = "httpOpen" /\ Return(c)

SpecHttp == Init /\ [][NextHttp]_vars

\* the connection lifecycle alone, with status requests pending across it
NextLifecycle ==
    \/ ConnectTracked
    \/ PortOpen
    \/ PortError
    \/ DisconnectTracked
    \/ CloseCallbackTracked
    \/ \E c \in Callers : RequestStatus(c, MaxLifecycleOps)
    \/ \E c \in Callers, ok \in BOOLEAN : StatusWriteCallback(c, ok)
    \/ \E c \in Callers : StatusTimeout(c)
    \/ \E c \in Callers : Return(c)

SpecLifecycle == Init /\ [][NextLifecycle]_vars

\* the same, where an armed timer fires in the end and a pending write gets its callback
SpecLifecycleFair ==
    /\ SpecLifecycle
    /\ \A c \in Callers : WF_vars(StatusTimeout(c))
    /\ \A c \in Callers : WF_vars(\E ok \in BOOLEAN : StatusWriteCallback(c, ok))

----------------------------------------------------------------------------
(* The codec called directly *)

SampleBytes == {0, 1, 85, 170, 255}
SampleAddresses == {0, 1, 255}
SampleInstructions == {INSTR_STATUS_REQ, INSTR_OPEN, 255}

ShortPayloads == UNION {[1..n -> SampleBytes] : n \in 0..MaxPayload}
LongPayloads == {[i \in 1..n |-> b] : n \in (MaxLongPayload - 1)..MaxLongPayload, b \in {0, 255}}

\* six status bytes: byte b at position k, the others all c; optionally one more payload byte
StatusPayloads ==
    {[i \in 1..STATUS_BYTES |-> IF i = k THEN b ELSE c] \o extra :
        k \in 1..STATUS_BYTES, b \in Byte, c \in {0, 255}, extra \in {<<>>, <<9>>}}

\* buildSerialFrame(dataBytes, boardAddress, instruction), then validateFrameCRC on its result
BuildFrame(dataBytes, boardAddress, instruction) ==
    /\ probe.kind = "none"
    /\ \E frame \in {buildSerialFrame(dataBytes, boardAddress, instruction)} :
          probe' = [kind |-> "built", dataBytes |-> dataBytes, boardAddress |-> boardAddress,
                    instruction |-> instruction, frame |-> frame,
                    valid |-> validateFrameCRC(frame)]
    /\ UNCHANGED <<isConnected, port, cabinetStatus, responseBuffer, lastStatusUpdate,
                   statusRequestTimeout, armed, pc, call, writes, opCount>>
    /\ UNCHANGED <<sent, delivered, bursts, extracted, lastEvent, opens, resolved>>

\* parseStatusResponse(frame) on a status-response frame
DecodeStatus(frame) ==
    /\ probe.kind = "none"
    /\ probe' = [kind |-> "decoded", frame |-> frame, parsed |-> parseStatusResponse(frame)]
    /\ UNCHANGED <<isConnected, port, cabinetStatus, responseBuffer, lastStatusUpdate,
                   statusRequestTimeout, armed, pc, call, writes, opCount>>
    /\ UNCHANGED <<sent, delivered, bursts, extracted, lastEvent, opens, resolved>>

\* calculateCRC8(buffer) called directly
Checksum(buffer) ==
    /\ probe.kind = "none"
    /\ probe' = [kind |-> "crc", buffer |-> buffer, crc |-> calculateCRC8(buffer)]
    /\ UNCHANGED <<isConnected, port, cabinetStatus, responseBuffer, lastStatusUpdate,
                   statusRequestTimeout, armed, pc, call, writes, opCount>>
    /\ UNCHANGED <<sent, delivered, bursts, extracted, lastEvent, opens, resolved>>

\* every byte sequence of up to MaxCrcLen bytes over the sample bytes, and every single byte
CrcInputs == (UNION {[1..n -> SampleBytes] : n \in 0..MaxCrcLen}) \cup {<<b>> : b \in Byte}

NextCrc == \E buffer \in CrcInputs : Checksum(buffer)

SpecCrc == Init /\ [][NextCrc]_vars

NextCodec ==
    \/ \E d \in ShortPayloads \cup LongPayloads, a \in SampleAddresses, n \in SampleInstructions :
          BuildFrame(d, a, n)
    \/ \E d \in StatusPayloads : DecodeStatus(StatusFrame(d))

SpecCodec == Init /\ [][NextCodec]_vars

----------------------------------------------------------------------------
(* Vocabulary of the properties *)

\* the chunk carried by a step that is a 'data' event of the line
IsDataStep == delivered' > delivered
StepChunk == SubSeq(LineAll, delivered + 1, delivered')

\* the cabinet map shows, for each of the 48 slots, the bit of status frame f
Reflects(cs, f) ==
    \A id \in 0..47 :
        /\ id \in DOMAIN cs
        /\ cs[id].id = id
        /\ cs[id].status = IF Bit(f[6 + (id \div 8)], id % 8) = 1 THEN "available" ELSE "unavailable"

\* complete frames with a correct checksum among the items of the line
ValidFrameItems == {"sA", "sB", "sZ", "echo", "ack"}
GarbageItems == {"stray", "junk"}

\* buf starts with a complete frame (header, declared length reached) failing the checksum
TamperedHead(buf) ==
    /\ Len(buf) >= 6
    /\ buf[1] = 170 /\ buf[2] = 85
    /\ Len(buf) >= buf[3] + 4
    /\ calculateCRC8(SubSeq(buf, 1, buf[3] + 3)) # buf[buf[3] + 4]

\* the state reached by handing each item of items[i..] to the handler in one 'data' event
RECURSIVE WholeDelivery(_, _, _)
WholeDelivery(st, items, i) ==
    IF i > Len(items) THEN st
    ELSE LET r == parseResponse(st.cs, st.lsu, st.rb \o ItemBytes(items[i]))
         IN  WholeDelivery([cs |-> r.cs, lsu |-> r.lsu, rb |-> r.rb, out |-> st.out \o r.out], items, i + 1)

----------------------------------------------------------------------------
(* C1: one complete valid frame delivered in any split over several 'data'  *)
(* events, starting from an empty buffer, is extracted exactly once, and    *)
(* cabinetStatus and responseBuffer end as if the frame had come in one     *)
(* event (stated for every line made of valid frames, delivered in full).   *)
C1_SplitEqualsWhole ==
    (sent # <<>> /\ (\A i \in DOMAIN sent : sent[i] \in ValidFrameItems) /\ delivered = Len(LineAll))
    => LET w == WholeDelivery([cs |-> <<>>, lsu |-> 0, rb |-> <<>>, out |-> <<>>], sent, 1)
       IN  /\ cabinetStatus = w.cs
           /\ responseBuffer = w.rb
           /\ responseBuffer = <<>>
           /\ extracted = w.out
           /\ Len(extracted) = Len(sent)
           /\ \A i \in DOMAIN sent : extracted[i] = [frame |-> ItemBytes(sent[i]), valid |-> TRUE]

\* a status frame completed by a later chunk than the one that brought its first bytes
C1_Witness ==
    /\ sent = <<"sA">>
    /\ delivered = Len(FrameSA)
    /\ lastEvent = [frames |-> 1, carried |-> TRUE]
    /\ Len(extracted) = 1
    /\ Reflects(cabinetStatus, FrameSA)

(* C2: after inbound bytes that do not start with the header (one stray     *)
(* byte, or a run of garbage), a complete valid status frame received next  *)
(* is still extracted and merged into cabinetStatus.                        *)
C2_ResyncAfterGarbage ==
    \A g \in GarbageItems, f \in StatusItems :
        (sent = <<g, f>> /\ delivered = Len(LineAll))
        => /\ Reflects(cabinetStatus, ItemBytes(f))
           /\ \E i \in DOMAIN extracted : extracted[i] = [frame |-> ItemBytes(f), valid |-> TRUE]

(* C3: responseBuffer never holds more bytes than the cap (10 KB).          *)
C3_BufferWithinCap == Len(responseBuffer) <= MAX_BUFFER_SIZE

(* C7: a complete frame whose checksum byte is wrong never changes          *)
(* cabinetStatus or lastStatusUpdate, whatever the state before, and its    *)
(* bytes are consumed: the pass goes on with the bytes after it.            *)
C7_TamperedFrameIgnored ==
    [][ (IsDataStep /\ TamperedHead(responseBuffer \o StepChunk))
        => LET buf == responseBuffer \o StepChunk
               n == buf[3] + 4
               rest == SubSeq(buf, n + 1, Len(buf))
               r == parseResponse(cabinetStatus, lastStatusUpdate, rest)
           IN  /\ cabinetStatus' = r.cs
               /\ lastStatusUpdate' = r.lsu
               /\ responseBuffer' = r.rb
               /\ extracted' = extracted \o <<[frame |-> SubSeq(buf, 1, n), valid |-> FALSE]>> \o r.out
               /\ (Len(rest) < 6 => /\ cabinetStatus' = cabinetStatus
                                    /\ lastStatusUpdate' = lastStatusUpdate
                                    /\ responseBuffer' = rest) ]_vars

\* a tampered frame arrived after a merged status frame and left no trace
C7_Witness ==
    /\ sent = <<"sA", "bad">>
    /\ delivered = Len(LineAll)
    /\ Len(extracted) = 2
    /\ extracted[2] = [frame |-> FrameBad, valid |-> FALSE]
    /\ responseBuffer = <<>>
    /\ lastStatusUpdate = 1
    /\ Reflects(cabinetStatus, FrameSA)

----------------------------------------------------------------------------
(* Vocabulary of the command-side properties *)

\* a non-empty array whose elements are all integers in 0..255
IsBatchOfIds(x) ==
    /\ x.isArray
    /\ Len(x.elems) >= 1
    /\ \A i \in DOMAIN x.elems : x.elems[i].isInt /\ x.elems[i].v \in 0..255

\* the ids of the entries of a result list, in order
IdsOf(entries) == [i \in DOMAIN entries |-> entries[i].id]

\* caller c holds the result of an open batch whose writes all succeeded
BatchSucceeded(c) ==
    /\ pc[c] = "done"
    /\ call[c].op = "open"
    /\ Len(call[c].failed) = 0
    /\ Len(call[c].opened) = Len(call[c].ids)

\* getCabinetStatus() lists cabinet id with status 'opened'
ReportsOpened(id) ==
    \E i \in DOMAIN getCabinetStatus.cabinets :
        /\ getCabinetStatus.cabinets[i].id = id
        /\ getCabinetStatus.cabinets[i].status = "opened"

(* C4: command operations are processed strictly one at a time: every       *)
(* serial write of the operation that started first precedes every write of *)
(* an operation that started later (FIFO, never interleaved).               *)
C4_WritesNeverInterleave ==
    \A i \in DOMAIN writes : \A j \in DOMAIN writes :
        i < j => writes[i].op <= writes[j].op

(* C5: a pending requestStatus resolves as soon as a valid status-response  *)
(* frame received after the request has been decoded and merged: no caller  *)
(* is still waiting once such a frame has been merged.                      *)
C5_ResolvesOnResponse ==
    \A c \in Callers : pc[c] = "statusWait" => ~call[c].answered

(* C6: within one openCabinets batch the inter-command delay elapses before *)
(* every write attempt but the first, whether the earlier write succeeded   *)
(* or failed.                                                               *)
C6_DelayBetweenWrites ==
    \A i \in DOMAIN writes : writes[i].gap \in {"first", "delay"}

(* C9 as stated: a batch of ids in 0..255 issued while connected whose      *)
(* writes all succeed returns opened = the input ids in input order and     *)
(* failed = [], and getCabinetStatus then reports each id as 'opened'.      *)
C9_OpenedThenReported ==
    \A c \in Callers :
        BatchSucceeded(c)
        => /\ IdsOf(call[c].opened) = call[c].ids
           /\ call[c].failed = <<>>
           /\ \A i \in DOMAIN call[c].ids : ReportsOpened(call[c].ids[i])

(* C9 amended: the same result, and getCabinetStatus reports each id as     *)
(* 'opened' provided no status-response frame was merged and no resetStatus *)
(* ran since the batch started.                                             *)
C9_OpenedThenReportedUndisturbed ==
    \A c \in Callers :
        BatchSucceeded(c)
        => /\ IdsOf(call[c].opened) = call[c].ids
           /\ call[c].failed = <<>>
           /\ \A i \in DOMAIN call[c].opened : call[c].opened[i].status = "opened"
           /\ (~call[c].disturbed => \A i \in DOMAIN call[c].ids : ReportsOpened(call[c].ids[i]))

\* a two-id batch returned in full over a map that a status frame had filled before it started
C9_Witness ==
    \E c \in Callers :
        /\ BatchSucceeded(c)
        /\ call[c].ids = <<5, 200>>
        /\ ~call[c].disturbed
        /\ lastStatusUpdate = 1
        /\ ReportsOpened(5) /\ ReportsOpened(200)

(* C10: openCabinets called with a non-array, an empty array, or an array   *)
(* holding at any position an element that is not an integer in 0..255      *)
(* rejects before any serial write is attempted and leaves cabinetStatus    *)
(* unchanged, even when earlier elements are valid.                         *)
C10_InvalidInputRejectedBeforeWrite ==
    [][ \A c \in Callers :
          (pc[c] = "idle" /\ call'[c].op = "open" /\ ~IsBatchOfIds(call'[c].input))
          => /\ pc'[c] = "rejected"
             /\ writes' = writes
             /\ cabinetStatus' = cabinetStatus ]_vars

\* a connected service rejected [5, 256] after opening cabinet 5 alone: nothing written for the bad batch
C10_Witness ==
    \E c \in Callers :
        /\ pc[c] = "rejected"
        /\ call[c].op = "open"
        /\ call[c].input = Arr(<<Num(5), Num(256)>>)
        /\ isConnected
        /\ Len(writes) = 1
        /\ DOMAIN cabinetStatus = {5}

\* the elements of s at the positions of P, in order
RECURSIVE Pick(_, _, _)
Pick(s, P, i) ==
    IF i > Len(s) THEN <<>>
    ELSE (IF i \in P THEN <<s[i]>> ELSE <<>>) \o Pick(s, P, i + 1)

(* C11: a structurally valid batch never rejects; a failed write puts its   *)
(* id in failed and the later ids are still attempted, so on return every   *)
(* input position is in exactly one of opened or failed.                    *)
C11_EveryPositionOpenedOrFailed ==
    \A c \in Callers :
        (call[c].op = "open" /\ IsBatchOfIds(call[c].input))
        => /\ pc[c] # "rejected"
           /\ pc[c] = "done" =>
                \E P \in SUBSET (DOMAIN call[c].ids) :
                    /\ IdsOf(call[c].opened) = Pick(call[c].ids, P, 1)
                    /\ IdsOf(call[c].failed) = Pick(call[c].ids, (DOMAIN call[c].ids) \ P, 1)

\* the write for 5 failed, 200 was still attempted and opened
C11_Witness ==
    \E c \in Callers :
        /\ pc[c] = "done"
        /\ call[c].op = "open"
        /\ call[c].ids = <<5, 200>>
        /\ IdsOf(call[c].failed) = <<5>>
        /\ IdsOf(call[c].opened) = <<200>>

(* C12: no frame is written while the service is not connected; a command  *)
(* issued then fails with 'Serial port not connected' (openCabinets reports *)
(* every id as failed) and cabinetStatus is unchanged.                      *)
C12_NoWriteWhenNotConnected ==
    [][ /\ (writes' # writes => isConnected)
        /\ \A c \in Callers :
             (pc[c] = "idle" /\ call'[c].op # "none" /\ ~isConnected)
             => /\ writes' = writes
                /\ cabinetStatus' = cabinetStatus
                /\ (call'[c].op = "status"
                      => pc'[c] = "rejected" /\ call'[c].error = "Serial port not connected")
                /\ ((call'[c].op = "open" /\ IsBatchOfIds(call'[c].input))
                      => /\ pc'[c] = "done"
                         /\ call'[c].opened = <<>>
                         /\ IdsOf(call'[c].failed) = call'[c].ids
                         /\ \A i \in DOMAIN call'[c].failed :
                                call'[c].failed[i].error = "Serial port not connected") ]_vars

\* a batch issued after the port had been closed: both ids failed, nothing was written
C12_Witness ==
    \E c \in Callers :
        /\ ~isConnected
        /\ port = "closed"
        /\ pc[c] = "done"
        /\ call[c].op = "open"
        /\ call[c].ids = <<5, 200>>
        /\ call[c].opened = <<>>
        /\ IdsOf(call[c].failed) = <<5, 200>>
        /\ writes = <<>>
        /\ cabinetStatus = <<>>

(* C13: decoding a valid status-response frame (declared length >= 8)      *)
(* yields exactly 48 entries with ids 0..47; entry byteIndex*8+bitIndex is  *)
(* 'available' iff bit bitIndex (LSB first) of status byte byteIndex is 1,  *)
(* 'unavailable' otherwise; all-zero bytes give 48 'unavailable', all-0xFF  *)
(* give 48 'available'.                                                     *)
C13_DecodeBitMap ==
    (probe.kind = "decoded" /\ probe.frame[3] >= 8)
    => LET f == probe.frame
           r == probe.parsed
       IN  /\ r.ok
           /\ DOMAIN r.cabinets = 0..47
           /\ r.totalCabinets = 48
           /\ \A byteIndex \in 0..5, bitIndex \in 0..7 :
                LET e == r.cabinets[byteIndex * 8 + bitIndex]
                    bit == (f[6 + byteIndex] \div (2 ^ bitIndex)) % 2
                IN  /\ e.id = byteIndex * 8 + bitIndex
                    /\ e.status \in {"available", "unavailable"}
                    /\ e.status = "available" <=> bit = 1
           /\ (\A i \in 6..11 : f[i] = 0) => \A id \in 0..47 : r.cabinets[id].status = "unavailable"
           /\ (\A i \in 6..11 : f[i] = 255) => \A id \in 0..47 : r.cabinets[id].status = "available"

\* status bytes 00 00 00 00 00 A4: cabinets 42, 45 and 47 available, the other 45 not
C13_Witness ==
    /\ probe.kind = "decoded"
    /\ SubSeq(probe.frame, 6, 11) = <<0, 0, 0, 0, 0, 164>>
    /\ {id \in DOMAIN probe.parsed.cabinets : probe.parsed.cabinets[id].status = "available"} = {42, 45, 47}

(* C14: for every payload byte sequence, address byte and instruction      *)
(* byte, the frame produced by buildSerialFrame passes validateFrameCRC.    *)
C14_BuiltFrameValidates ==
    probe.kind = "built" => probe.valid

(* C15: resetStatus empties the whole cabinet map in one step and changes   *)
(* nothing else: no frame is written, the connection state, responseBuffer  *)
(* and any pending status-request timer are unchanged.                      *)
C15_ResetClearsMapOnly ==
    [][ (ResetStatus \/ (DOMAIN cabinetStatus) \ (DOMAIN cabinetStatus') # {})
        => /\ cabinetStatus' = <<>>
           /\ writes' = writes
           /\ isConnected' = isConnected /\ port' = port
           /\ responseBuffer' = responseBuffer
           /\ lastStatusUpdate' = lastStatusUpdate
           /\ statusRequestTimeout' = statusRequestTimeout /\ armed' = armed
           /\ pc' = pc ]_vars

\* a reset while a status request waits on its timer, after a status frame had filled the map
C15_Witness ==
    /\ cabinetStatus = <<>>
    /\ lastStatusUpdate = 1
    /\ isConnected
    /\ armed # {}
    /\ statusRequestTimeout # NoTimer
    /\ Len(writes) = 1

(* C16: no entry is ever removed from the cabinet map by openCabinets,      *)
(* status decoding, connect, disconnect or getCabinetStatus: in every step  *)
(* other than a resetStatus the set of ids present only grows.              *)
C16_MapOnlyGrows ==
    [][ ~ResetStatus => (DOMAIN cabinetStatus) \subseteq (DOMAIN cabinetStatus') ]_vars

\* a status frame merged after cabinets 5 and 200 were opened: 5 overwritten, 200 kept
C16_Witness ==
    /\ DOMAIN cabinetStatus = (0..47) \cup {200}
    /\ cabinetStatus[200].status = "opened"
    /\ cabinetStatus[5].status = "unavailable"
    /\ lastStatusUpdate = 1

(* C17: once a status request has completed normally (its response was     *)
(* merged) its timer has been cancelled: a status-request timer is armed    *)
(* only for a request that is pending and whose response has not been       *)
(* merged yet.                                                              *)
C17_TimerCancelledOnResponse ==
    \A c \in armed : pc[c] = "statusWait" /\ ~call[c].answered

\* faulty variant: the result lists the entries of the map as it is when the caller reads it
ResultCabinetsLive(c) ==
    [i \in 1..Cardinality(DOMAIN cabinetStatus) |->
        cabinetStatus[CHOOSE k \in DOMAIN cabinetStatus :
                         Cardinality({j \in DOMAIN cabinetStatus : j < k}) = i - 1]]

\* what caller c reads in the cabinets list of the result it holds
ResultCabinets(c) == call[c].result.cabinets

\* caller c holds the result of a getCabinetStatus call
HoldsResult(c) == pc[c] = "done" /\ call[c].op = "getStatus"

(* C18: getCabinetStatus never rejects: with requestFresh = true a failed   *)
(* status-request send or a missing response (timeout) still yields a       *)
(* result carrying the cabinet map cached at that moment.                   *)
C18_StatusReportNeverRejects ==
    [][ \A c \in Callers :
          /\ (call[c].op = "status" /\ call[c].fresh) => pc'[c] # "rejected"
          /\ (call'[c].op = "getStatus" /\ call[c].op # "getStatus")
             => /\ pc'[c] = "done"
                /\ call'[c].result.cabinets = ValuesFrom(cabinetStatus, DOMAIN cabinetStatus)
                /\ call'[c].result.connected = isConnected
                /\ call'[c].result.lastUpdate = lastStatusUpdate
                /\ writes' = writes /\ cabinetStatus' = cabinetStatus ]_vars

\* a fresh report whose request was written and then settled without a merged response,
\* returned with the cached entry of cabinet 5
C18_Witness ==
    \E c \in Callers :
        /\ HoldsResult(c)
        /\ call[c].requestFresh
        /\ \E i \in DOMAIN writes : writes[i].by = c /\ writes[i].frame = FrameAck
        /\ lastStatusUpdate = 0
        /\ call[c].result.cabinets = <<[id |-> 5, status |-> "opened"]>>

C21_DisconnectedUntilConnect == resolved => ~isConnected

(* C22: the frame built to open cabinet 1 with the default address and      *)
(* instruction is exactly the byte sequence AA 55 03 00 51 01 A5.           *)
C22_OpenCabinetOneFrame ==
    (probe.kind = "built" /\ probe.dataBytes = <<1>> /\ probe.boardAddress = 0 /\ probe.instruction = 81)
    => probe.frame = <<170, 85, 3, 0, 81, 1, 165>>

(* C23: every frame the engine writes to the port (open command or status   *)
(* request) starts with AA 55, has byte 2 equal to 2 + payload length, and  *)
(* has total length equal to byte 2 + 4.                                    *)
C23_WrittenFramesWellFormed ==
    \A i \in DOMAIN writes :
        LET f == writes[i].frame
            payloadLength == IF f[5] = 81 THEN 1 ELSE 0     \* one id for an open command, nothing for a status request
        IN  /\ Len(f) >= 6
            /\ f[1] = 170 /\ f[2] = 85
            /\ f[5] \in {80, 81}
            /\ f[3] = 2 + payloadLength
            /\ Len(f) = f[3] + 4
            /\ \A k \in DOMAIN f : f[k] \in 0..255

\* an open command for cabinet 200 and a status request have both been written
C23_Witness ==
    /\ \E i \in DOMAIN writes : writes[i].frame[5] = 81 /\ writes[i].frame[6] = 200 /\ Len(writes[i].frame) = 7
    /\ \E i \in DOMAIN writes : writes[i].frame[5] = 80 /\ Len(writes[i].frame) = 6

(* C24: the HTTP open handler answers 400 without calling the service (no   *)
(* serial write) exactly when cabinetIds is missing, not an array, empty,   *)
(* or holds a value that is not an integer in 0..255; otherwise it answers  *)
(* 500 when every id of the batch failed and 200 when at least one id was   *)
(* opened.                                                                  *)
C24_HttpOpenStatus ==
    [][ \A c \in Callers :
          (call'[c].op = "httpOpen" /\ call[c].op # "httpOpen")
          => LET r == call'[c]
                 wellFormed == r.body.present /\ IsBatchOfIds(r.body.cabinetIds)
             IN  /\ r.status = 400 <=> ~wellFormed
                 /\ r.status = 400 => /\ pc[c] = "idle"
                                      /\ writes' = writes
                                      /\ cabinetStatus' = cabinetStatus
                 /\ wellFormed => /\ call[c].op = "open" /\ pc[c] = "done"
                                  /\ r.opened = call[c].opened /\ r.failed = call[c].failed
                                  /\ Len(r.opened) + Len(r.failed) = Len(r.body.cabinetIds.elems)
                                  /\ Len(r.opened) = 0 => r.status = 500
                                  /\ Len(r.opened) >= 1 => r.status = 200 ]_vars

\* one client was answered 200 for [5, 200] although 5 failed, the other 500 for a batch that failed whole
C24_Witness ==
    \E c \in Callers, d \in Callers :
        /\ pc[c] = "done" /\ call[c].op = "httpOpen" /\ call[c].status = 200
        /\ IdsOf(call[c].failed) = <<5>> /\ IdsOf(call[c].opened) = <<200>>
        /\ pc[d] = "done" /\ call[d].op = "httpOpen" /\ call[d].status = 500
        /\ call[d].opened = <<>> /\ Len(call[d].failed) >= 1

\* buf is a proper prefix of a frame that begins with the header and is not complete yet
IsPartialFrame(buf) ==
    /\ Len(buf) >= 1
    /\ buf[1] = 170
    /\ Len(buf) >= 2 => buf[2] = 85
    /\ Len(buf) >= 3 => Len(buf) < buf[3] + 4

(* C25: after every parseResponse pass, responseBuffer is either empty or a *)
(* proper prefix of a not-yet-complete frame that begins with AA 55: it     *)
(* never holds a complete frame and never holds bytes that precede a        *)
(* header; it is empty after a buffer made only of complete frames.         *)
C25_BufferEmptyOrPartialFrame ==
    /\ responseBuffer = <<>> \/ IsPartialFrame(responseBuffer)
    /\ (sent # <<>> /\ (\A i \in DOMAIN sent : sent[i] \in ValidFrameItems) /\ delivered = Len(LineAll))
       => responseBuffer = <<>>

\* the buffer handed to parseResponse by a step that is a 'data' event
StepBuffer == responseBuffer \o StepChunk

(* C26: when parseResponse is given a buffer of at least 6 bytes whose      *)
(* first two bytes are not AA 55, responseBuffer is empty afterwards (the   *)
(* invalid data is discarded) and cabinetStatus is unchanged.               *)
C26_InvalidHeaderDiscarded ==
    [][ (IsDataStep /\ Len(StepBuffer) >= 6 /\ ~(StepBuffer[1] = 170 /\ StepBuffer[2] = 85))
        => /\ responseBuffer' = <<>>
           /\ cabinetStatus' = cabinetStatus ]_vars

FailedOf(cl) == IF cl.op = "open" /\ "failed" \in DOMAIN cl THEN cl.failed ELSE <<>>

(* C28: a cabinet is marked 'opened' in the map only after the write of its *)
(* own open frame succeeded: an attempt that puts its id in failed neither  *)
(* creates nor modifies a map entry.                                        *)
C28_MarkedOnlyAfterOwnWrite ==
    [][ /\ \A c \in Callers :
             Len(FailedOf(call'[c])) > Len(FailedOf(call[c])) => cabinetStatus' = cabinetStatus
        /\ \A id \in DOMAIN cabinetStatus' :
             (/\ cabinetStatus'[id].status = "opened"
              /\ (id \notin DOMAIN cabinetStatus \/ cabinetStatus[id] # cabinetStatus'[id]))
             => \E c \in Callers :
                   /\ pc[c] = "writing"
                   /\ call[c].ids[call[c].idx] = id
                   /\ \E i \in DOMAIN writes :
                         /\ writes[i].by = c /\ writes[i].op = call[c].opId
                         /\ writes[i].frame = buildSerialFrame(<<id>>, 0, 81)
                   /\ call'[c].opened = Append(call[c].opened, [id |-> id, status |-> "opened"])
                   /\ call'[c].failed = call[c].failed ]_vars

\* the write for 5 failed and the write for 200 succeeded: only 200 is in the map
C28_Witness ==
    \E c \in Callers :
        /\ pc[c] = "done"
        /\ call[c].op = "open"
        /\ IdsOf(call[c].failed) = <<5>>
        /\ call[c].failed[1].error = "write error"
        /\ IdsOf(call[c].opened) = <<200>>
        /\ DOMAIN cabinetStatus = {200}
        /\ cabinetStatus[200].status = "opened"

\* the frames handed to port.write by operation op, in order
FramesOf(op) ==
    LET idx == {i \in DOMAIN writes : writes[i].op = op}
    IN  [k \in 1..Cardinality(idx) |->
            writes[CHOOSE i \in idx : Cardinality({j \in idx : j < i}) = k - 1].frame]

\* the ids whose send was refused because the service was not connected, in order
RefusedOf(cl) ==
    LET idx == {i \in DOMAIN cl.failed : cl.failed[i].error = "Serial port not connected"}
    IN  [k \in 1..Cardinality(idx) |->
            cl.failed[CHOOSE i \in idx : Cardinality({j \in idx : j < i}) = k - 1].id]

OpenFrames(ids) == [i \in DOMAIN ids |-> buildSerialFrame(<<ids[i]>>, 0, 81)]

(* C29: for a valid batch of n ids, openCabinets makes exactly n write       *)
(* attempts, one per input position and in input order, the i-th carrying a *)
(* frame whose payload is the single byte ids[i]; an attempt is a call of    *)
(* sendFrame, which hands the frame to port.write or refuses it because the *)
(* service is not connected.                                                *)
C29_OneAttemptPerPosition ==
    \A c \in Callers :
        (call[c].op = "open" /\ pc[c] # "rejected")
        => \E written \in {FramesOf(call[c].opId)}, refused \in {RefusedOf(call[c])},
              frames \in {OpenFrames(call[c].ids)} :
             LET n == Len(call[c].ids)
                 attempted == Len(written) + Len(refused)
             IN  /\ attempted <= n
                 /\ pc[c] = "done" => attempted = n
                 /\ \E P \in SUBSET (1..attempted) :
                       /\ written = Pick(frames, P, 1)
                       /\ refused = Pick(call[c].ids, (1..attempted) \ P, 1)
                 /\ (pc[c] = "done" /\ refused = <<>>) => written = frames

\* [5, 200]: the frame for 5 was written and its write failed, the frame for 200 was written next
C29_Witness ==
    \E c \in Callers :
        /\ pc[c] = "done"
        /\ call[c].op = "open"
        /\ call[c].ids = <<5, 200>>
        /\ FramesOf(call[c].opId) = <<buildSerialFrame(<<5>>, 0, 81), buildSerialFrame(<<200>>, 0, 81)>>
        /\ IdsOf(call[c].failed) = <<5>>
        /\ call[c].failed[1].error = "write error"

\* buf starts with a complete frame whose checksum is correct and whose instruction is not the status response
OtherInstructionHead(buf) ==
    /\ Len(buf) >= 6
    /\ buf[1] = 170 /\ buf[2] = 85
    /\ Len(buf) >= buf[3] + 4
    /\ calculateCRC8(SubSeq(buf, 1, buf[3] + 3)) = buf[buf[3] + 4]
    /\ buf[5] # 81

(* C30: a checksum-valid frame whose instruction byte is not the            *)
(* status-response code is consumed from the buffer and leaves              *)
(* cabinetStatus and lastStatusUpdate unchanged, and the frames following   *)
(* it in the same buffer are still processed.                               *)
C30_OtherInstructionConsumed ==
    [][ (IsDataStep /\ OtherInstructionHead(StepBuffer))
        => \E buf \in {StepBuffer} :
             LET n == buf[3] + 4
                 rest == SubSeq(buf, n + 1, Len(buf))
                 r == parseResponse(cabinetStatus, lastStatusUpdate, rest)
             IN  /\ cabinetStatus' = r.cs
                 /\ lastStatusUpdate' = r.lsu
                 /\ responseBuffer' = r.rb
                 /\ extracted' = extracted \o <<[frame |-> SubSeq(buf, 1, n), valid |-> TRUE]>> \o r.out
                 /\ (Len(rest) < 6 => /\ cabinetStatus' = cabinetStatus
                                      /\ lastStatusUpdate' = lastStatusUpdate
                                      /\ responseBuffer' = rest)
                 /\ \A f \in StatusItems :
                      rest = ItemBytes(f) => /\ Reflects(cabinetStatus', rest)
                                             /\ lastStatusUpdate' = lastStatusUpdate + 1
                                             /\ responseBuffer' = <<>> ]_vars

\* a status-request frame and a status response came in one pass: the first left no trace, the second was merged
C30_Witness ==
    /\ sent = <<"ack", "sA">>
    /\ delivered = Len(LineAll)
    /\ lastEvent.frames = 2
    /\ extracted = <<[frame |-> FrameAck, valid |-> TRUE], [frame |-> FrameSA, valid |-> TRUE]>>
    /\ lastStatusUpdate = 1
    /\ Reflects(cabinetStatus, FrameSA)
    /\ responseBuffer = <<>>

\* the frames extracted by the step, in order
StepFrames == SubSeq(extracted', Len(extracted) + 1, Len(extracted'))

\* a frame the status decoder accepts when parseResponse hands it over
IsStatusResponse(e) ==
    e.valid /\ Len(e.frame) >= 12 /\ e.frame[3] >= 8 /\ e.frame[5] = 81

\* the ids whose map entry the step created or changed
Touched == {id \in DOMAIN cabinetStatus' : id \notin DOMAIN cabinetStatus \/ cabinetStatus[id] # cabinetStatus'[id]}

(* C31: status decoding is all-or-nothing: a frame that is too short        *)
(* (declared length < 8 or fewer than 12 bytes) or that is not a            *)
(* status-response instruction yields no result and changes no map entry;   *)
(* a frame that is decoded writes its 48 entries in one step, so no state   *)
(* shows only some of the entries of one frame.                             *)
C31_DecodeAllOrNothing ==
    [][ IsDataStep
        => \E frames \in {StepFrames} :
             /\ (\A i \in DOMAIN frames : ~IsStatusResponse(frames[i]))
                => /\ cabinetStatus' = cabinetStatus
                   /\ lastStatusUpdate' = lastStatusUpdate
             /\ \A i \in DOMAIN frames :
                  (IsStatusResponse(frames[i]) /\ \A j \in DOMAIN frames : j > i => ~IsStatusResponse(frames[j]))
                  => /\ Reflects(cabinetStatus', frames[i].frame)
                     /\ Touched \subseteq 0..47
                     /\ \A id \in (DOMAIN cabinetStatus) \ (0..47) :
                          id \in DOMAIN cabinetStatus' /\ cabinetStatus'[id] = cabinetStatus[id] ]_vars

\* a short status response and a 12-byte frame of another instruction arrived after cabinet 5 was opened: only 5 is in the map
C31_Witness ==
    /\ sent = <<"short", "req6">>
    /\ delivered = Len(LineAll)
    /\ extracted = <<[frame |-> FrameShort, valid |-> TRUE], [frame |-> FrameReq6, valid |-> TRUE]>>
    /\ DOMAIN cabinetStatus = {5}
    /\ lastStatusUpdate = 0
    /\ responseBuffer = <<>>

\* the reference checksum, bit by bit: the register is kept as its 8 bits (bit 0 first);
\* per input byte XOR, then 8 times shift right and XOR 0x8C when the bit shifted out was 1
PolyBits == <<0, 0, 1, 1, 0, 0, 0, 1>>          \* 0x8C, bit 0 first
BitsOf(x) == [k \in 1..8 |-> (x \div (2 ^ (k - 1))) % 2]
ValueOf(bits) == bits[1] + 2 * bits[2] + 4 * bits[3] + 8 * bits[4]
                 + 16 * bits[5] + 32 * bits[6] + 64 * bits[7] + 128 * bits[8]
XorBits(a, b) == [k \in 1..8 |-> (a[k] + b[k]) % 2]
ShiftRight(bits) == [k \in 1..8 |-> IF k = 8 THEN 0 ELSE bits[k + 1]]

RefRound(bits) == IF bits[1] = 1 THEN XorBits(ShiftRight(bits), PolyBits) ELSE ShiftRight(bits)

RECURSIVE RefRounds(_, _)
RefRounds(bits, n) == IF n = 0 THEN bits ELSE RefRounds(RefRound(bits), n - 1)

RECURSIVE RefCrc(_, _, _)
RefCrc(bits, buffer, i) ==
    IF i > Len(buffer) THEN bits
    ELSE RefCrc(RefRounds(XorBits(bits, BitsOf(buffer[i])), 8), buffer, i + 1)

(* C32: for every byte sequence, calculateCRC8 equals the reference         *)
(* bit-serial LSB-first CRC-8 (accumulator starting at 0; per byte XOR,     *)
(* then 8 rounds of shift right with conditional XOR 0x8C, masked to 8      *)
(* bits); the result is in 0..255 and is 0 for the empty sequence.          *)
C32_ChecksumIsReference ==
    probe.kind = "crc"
    => /\ probe.crc = ValueOf(RefCrc(BitsOf(0), probe.buffer, 1))
       /\ probe.crc \in 0..255
       /\ probe.buffer = <<>> => probe.crc = 0

\* calculateCRC8 was called on the four bytes AA 55 01 00 and returned 0x38
C32_Witness ==
    /\ probe.kind = "crc"
    /\ probe.buffer = <<170, 85, 1, 0>>
    /\ probe.crc = 56

(* C33: the reassembler waits for more data only while fewer than 4 bytes   *)
(* are buffered: whenever at least 4 bytes starting with the header are     *)
(* buffered and the declared total length (length byte + 4) does not exceed *)
(* the buffered length, the frame is extracted in that pass.                *)
C33_ExtractedFromFourBytes ==
    [][ (IsDataStep /\ Len(StepBuffer) >= 4 /\ StepBuffer[1] = 170 /\ StepBuffer[2] = 85
                    /\ StepBuffer[3] + 4 <= Len(StepBuffer))
        => /\ Len(extracted') > Len(extracted)
           /\ extracted'[Len(extracted) + 1].frame = SubSeq(StepBuffer, 1, StepBuffer[3] + 4) ]_vars

\* the ids of the map entries with status 'opened'
OpenedIds(cs) == {id \in DOMAIN cs : cs[id].status = "opened"}

(* C34: an 'opened' entry for an id in 0..47 is replaced by 'available' or  *)
(* 'unavailable' by the next valid status-response frame, also when that    *)
(* frame arrives in the middle of the open batch, whereas an 'opened' entry *)
(* for an id in 48..255 keeps status 'opened' through any sequence of       *)
(* inbound frames until resetStatus.                                        *)
C34_OpenedOverwrittenBelow48 ==
    [][ /\ (IsDataStep /\ \E i \in DOMAIN StepFrames : IsStatusResponse(StepFrames[i]))
           => \A id \in OpenedIds(cabinetStatus) \cap (0..47) :
                 cabinetStatus'[id].status \in {"available", "unavailable"}
        /\ ~ResetStatus
           => \A id \in OpenedIds(cabinetStatus) \cap (48..255) :
                 id \in DOMAIN cabinetStatus' /\ cabinetStatus'[id] = cabinetStatus[id] ]_vars

\* the batch [5, 200] is still running: a status frame has replaced the entry of 5, the entry of 200 is 'opened'
C34_Witness ==
    \E c \in Callers :
        /\ pc[c] = "delay"
        /\ call[c].op = "open"
        /\ call[c].idx = 2
        /\ IdsOf(call[c].opened) = <<5, 200>>
        /\ call[c].disturbed
        /\ DOMAIN cabinetStatus = (0..47) \cup {200}
        /\ cabinetStatus[5].status = "unavailable"
        /\ cabinetStatus[200].status = "opened"

(* C35: every requestStatus call whose frame was written eventually         *)
(* resolves (no later than its 2000 ms timeout), for every interleaving     *)
(* with disconnect() and with further requestStatus calls.                  *)
C35_StatusRequestResolves ==
    \A c \in Callers : (pc[c] = "statusWait") ~> (pc[c] = "done")

(* C36: in every reachable state each cabinet map entry is stored under the *)
(* key equal to its own id, the id is an integer in 0..255, and its status  *)
(* is one of 'opened', 'available', 'unavailable'; entries for ids 48..255  *)
(* can only have status 'opened'.                                           *)
C36_MapEntriesWellFormed ==
    \A k \in DOMAIN cabinetStatus :
        /\ cabinetStatus[k].id = k
        /\ k \in 0..255
        /\ cabinetStatus[k].status \in {"opened", "available", "unavailable"}
        /\ k \in 48..255 => cabinetStatus[k].status = "opened"

\* a map holding the three statuses: 0 available and 1 unavailable from a status frame, 5 and 200 opened after it
C36_Witness ==
    /\ DOMAIN cabinetStatus = (0..47) \cup {200}
    /\ cabinetStatus[0].status = "available"
    /\ cabinetStatus[1].status = "unavailable"
    /\ cabinetStatus[5].status = "opened"
    /\ cabinetStatus[200].status = "opened"

\* an open-command frame as the engine writes it, seen on the inbound line
IsOpenEcho(e) ==
    e.valid /\ Len(e.frame) = 7 /\ e.frame[3] = 3 /\ e.frame[5] = 81

(* C37: an echo of the engine's own open-command frame (instruction 0x51,   *)
(* the code of a status response, with a one-byte payload) received on the  *)
(* line never modifies cabinetStatus or lastStatusUpdate: only frames with  *)
(* instruction 0x51, declared length >= 8 and at least 12 bytes can change  *)
(* the map.                                                                 *)
C37_EchoLeavesMapAlone ==
    [][ IsDataStep
        => \E frames \in {StepFrames} :
             /\ (\A i \in DOMAIN frames : IsOpenEcho(frames[i]) \/ ~frames[i].valid)
                => /\ cabinetStatus' = cabinetStatus
                   /\ lastStatusUpdate' = lastStatusUpdate
             /\ (cabinetStatus' # cabinetStatus \/ lastStatusUpdate' # lastStatusUpdate)
                => \E i \in DOMAIN frames :
                      /\ frames[i].valid
                      /\ frames[i].frame[5] = 81 /\ frames[i].frame[3] >= 8 /\ Len(frames[i].frame) >= 12 ]_vars

\* the echo of the open command for cabinet 5 was extracted after a status frame and left the map as that frame set it
C37_Witness ==
    /\ sent = <<"sA", "echo">>
    /\ delivered = Len(LineAll)
    /\ extracted = <<[frame |-> FrameSA, valid |-> TRUE], [frame |-> FrameEcho, valid |-> TRUE]>>
    /\ lastEvent.frames = 1
    /\ lastStatusUpdate = 1
    /\ Reflects(cabinetStatus, FrameSA)
    /\ responseBuffer = <<>>

(* C38: after a frame failing the checksum is discarded, parsing resumes at *)
(* the byte right after its declared length (length byte + 4), so a         *)
(* complete valid status-response frame that directly follows an invalid    *)
(* frame in the stream is decoded in the same pass.                         *)
C38_ResumesAfterInvalidFrame ==
    [][ \A f \in StatusItems :
          (/\ IsDataStep
           /\ TamperedHead(StepBuffer)
           /\ Len(StepBuffer) >= StepBuffer[3] + 4 + Len(ItemBytes(f))
           /\ SubSeq(StepBuffer, StepBuffer[3] + 5, StepBuffer[3] + 4 + Len(ItemBytes(f))) = ItemBytes(f))
          => /\ Len(extracted') >= Len(extracted) + 2
             /\ extracted'[Len(extracted) + 1] = [frame |-> SubSeq(StepBuffer, 1, StepBuffer[3] + 4), valid |-> FALSE]
             /\ extracted'[Len(extracted) + 2] = [frame |-> ItemBytes(f), valid |-> TRUE]
             /\ lastStatusUpdate' >= lastStatusUpdate + 1
             /\ Len(extracted') = Len(extracted) + 2
                => /\ lastStatusUpdate' = lastStatusUpdate + 1
                   /\ Reflects(cabinetStatus', ItemBytes(f))
             /\ Len(responseBuffer') <= Len(StepBuffer) - (StepBuffer[3] + 4) - Len(ItemBytes(f)) ]_vars

\* one 'data' event brought a tampered frame and the status frame behind it: the first was dropped, the second merged
C38_Witness ==
    /\ sent = <<"bad", "sA">>
    /\ delivered = Len(LineAll)
    /\ lastEvent = [frames |-> 2, carried |-> FALSE]
    /\ extracted = <<[frame |-> FrameBad, valid |-> FALSE], [frame |-> FrameSA, valid |-> TRUE]>>
    /\ lastStatusUpdate = 1
    /\ Reflects(cabinetStatus, FrameSA)

\* caller c is inside an open batch: a write or the delay after it is pending
InBatch(c) == pc[c] \in {"writing", "delay"}

(* C39: openCabinets on a valid batch terminates: assuming every serial     *)
(* write callback and every delay timer eventually fires, the call returns  *)
(* after its last write attempt, for every interleaving with data events,   *)
(* resetStatus, disconnect and other batches.                               *)
C39_BatchTerminates ==
    [](\A c \in Callers :
          InBatch(c) => <>(pc[c] = "done" /\ Len(call[c].opened) + Len(call[c].failed) = Len(call[c].ids)))

\* both clients' batches have returned; one of them lost its second id to a disconnect, and a reset emptied the map
C39_Witness ==
    /\ \A c \in Callers : pc[c] = "done" /\ call[c].op = "open"
    /\ \E c \in Callers :
          /\ IdsOf(call[c].opened) = <<5>>
          /\ IdsOf(call[c].failed) = <<200>>
          /\ call[c].failed[1].error = "Serial port not connected"
    /\ port = "closed"
    /\ lastStatusUpdate = 1
    /\ cabinetStatus = <<>>

====
